---- MODULE Spec2Model ----
(***************************************************************************)
(* Model of mcp-korea-public-transit (src/src/server.ts, dual-provider     *)
(* variant, and src/unnamed/part_000, single-provider variant).            *)
(*                                                                         *)
(* Two layers are modelled:                                                *)
(*   - the normalizers parseApiResponse / parseSubwayApiResponse, as       *)
(*     operators over a small algebra of JavaScript/JSON values;           *)
(*   - the three tool handlers as processes whose suspension points are    *)
(*     the awaits on fetch() and response.text().                          *)
(***************************************************************************)
EXTENDS Integers, Sequences, FiniteSets, TLC

VARIABLES
    inv,            \* per invocation: tool, arguments, position, promises, result
    responseText,   \* normalizer harness: the raw text handed to the parser
    parsed,         \* normalizer harness: what the parser returned
    ppc             \* normalizer harness: which parser has run

vars == <<inv, responseText, parsed, ppc>>

(***************************************************************************)
(* Bounds                                                                  *)
(***************************************************************************)
MaxItems == 2       \* longest itemList / items.item array enumerated
NumInv == 2         \* number of simultaneous tool invocations

(***************************************************************************)
(* JavaScript values.  Every value is a record tagged by t.                *)
(***************************************************************************)
Undefined == [t |-> "undefined"]
Null == [t |-> "null"]
Str(s) == [t |-> "str", s |-> s]
Num(n) == [t |-> "num", n |-> n]
Obj(m) == [t |-> "obj", m |-> m]
Arr(a) == [t |-> "arr", a |-> a]
NoFields == [k \in {} |-> Undefined]
EmptyStr == Str("")

\* ToBoolean
Truthy(v) ==
    CASE v.t = "undefined" -> FALSE
      [] v.t = "null" -> FALSE
      [] v.t = "str" -> v.s # ""
      [] v.t = "num" -> v.n # 0
      [] OTHER -> TRUE

\* a || b
Or(a, b) == IF Truthy(a) THEN a ELSE b

\* v.k throws a TypeError exactly when v is null or undefined
CanRead(v) == v.t \notin {"undefined", "null"}

\* v.k for a v that can be read: own property of an object, else undefined
Get(v, k) == IF v.t = "obj" /\ k \in DOMAIN v.m THEN v.m[k] ELSE Undefined

\* v?.k
OptGet(v, k) == IF CanRead(v) THEN Get(v, k) ELSE Undefined

\* Array.isArray(items) ? items : [items]
ToItemArrayDropSingle(items) == IF items.t = "arr" THEN items.a ELSE <<>>
ToItemArray(items) == IF items.t = "arr" THEN items.a ELSE <<items>>

(***************************************************************************)
(* Raw response text.  A text either fails JSON.parse or denotes a tree.   *)
(***************************************************************************)
Unparseable == [ok |-> FALSE, json |-> Undefined]
Text(j) == [ok |-> TRUE, json |-> j]
\* an XML document of <stationList> blocks: it starts with "<", so JSON.parse
\* throws a SyntaxError on it
XmlText(blocks) == [ok |-> FALSE, json |-> Undefined, xml |-> blocks]

(***************************************************************************)
(* parseApiResponse (bus)                                                  *)
(***************************************************************************)
\* const stationId = item.stationId || item.stId
StationId(item) == Or(Get(item, "stationId"), Get(item, "stId"))
\* const stationName = item.stationNm || item.stNm
StationName(item) == Or(Get(item, "stationNm"), Get(item, "stNm"))

\* the object literal pushed onto busStops
BusStopOfGpsFirst(item) ==
    [stId |-> StationId(item),
     stNm |-> StationName(item),
     tmX |-> Or(Or(Get(item, "gpsX"), Get(item, "tmX")), EmptyStr),
     tmY |-> Or(Or(Get(item, "gpsY"), Get(item, "tmY")), EmptyStr),
     arsId |-> Or(Get(item, "arsId"), EmptyStr),
     posX |-> Or(Get(item, "posX"), EmptyStr),
     posY |-> Or(Get(item, "posY"), EmptyStr)]
BusStopOf(item) ==
    [stId |-> StationId(item),
     stNm |-> StationName(item),
     tmX |-> Or(Or(Get(item, "tmX"), Get(item, "gpsX")), EmptyStr),
     tmY |-> Or(Or(Get(item, "tmY"), Get(item, "gpsY")), EmptyStr),
     arsId |-> Or(Get(item, "arsId"), EmptyStr),
     posX |-> Or(Get(item, "posX"), EmptyStr),
     posY |-> Or(Get(item, "posY"), EmptyStr)]

\* itemArray.forEach(...): a TypeError at element k abandons the loop and
\* leaves what was pushed so far in busStops
RECURSIVE PushBusStops(_, _, _)
PushBusStops(itemArray, k, busStops) ==
    IF k > Len(itemArray)
    THEN [threw |-> FALSE, stops |-> busStops]
    ELSE LET item == itemArray[k] IN
         IF ~CanRead(item)
         THEN [threw |-> TRUE, stops |-> busStops]
         ELSE PushBusStops(itemArray, k + 1,
                  IF Truthy(StationId(item)) /\ Truthy(StationName(item))
                  THEN Append(busStops, BusStopOf(item))
                  ELSE busStops)

\* the body of the try block
BusTryBlock(text) ==
    IF ~text.ok
    THEN [threw |-> TRUE, stops |-> <<>>]
    ELSE LET items == OptGet(OptGet(text.json, "msgBody"), "itemList") IN
         IF Truthy(items)
         THEN PushBusStops(ToItemArray(items), 1, <<>>)
         ELSE [threw |-> FALSE, stops |-> <<>>]

\* catch (error) { } ; return busStops
ParserCatchRethrow(r) ==
    [raised |-> r.threw, stops |-> IF r.threw THEN <<>> ELSE r.stops]
ParserCatch(r) == [raised |-> FALSE, stops |-> r.stops]

parseApiResponse(text) == ParserCatch(BusTryBlock(text))

(***************************************************************************)
(* parseSubwayApiResponse                                                  *)
(***************************************************************************)
SubwayStationOf(item) ==
    [subwayStationId |-> Get(item, "subwayStationId"),
     subwayStationName |-> Get(item, "subwayStationName"),
     subwayRouteName |-> Or(Get(item, "subwayRouteName"), EmptyStr),
     x |-> Or(Get(item, "x"), EmptyStr),
     y |-> Or(Get(item, "y"), EmptyStr)]

RECURSIVE PushSubwayStations(_, _, _)
PushSubwayStations(itemArray, k, subwayStations) ==
    IF k > Len(itemArray)
    THEN [threw |-> FALSE, stops |-> subwayStations]
    ELSE LET item == itemArray[k] IN
         IF ~CanRead(item)
         THEN [threw |-> TRUE, stops |-> subwayStations]
         ELSE PushSubwayStations(itemArray, k + 1,
                  IF Truthy(Get(item, "subwayStationId"))
                        /\ Truthy(Get(item, "subwayStationName"))
                  THEN Append(subwayStations, SubwayStationOf(item))
                  ELSE subwayStations)

SubwayTryBlock(text) ==
    IF ~text.ok
    THEN [threw |-> TRUE, stops |-> <<>>]
    ELSE LET items == OptGet(OptGet(OptGet(OptGet(text.json, "response"),
                                    "body"), "items"), "item") IN
         IF Truthy(items)
         THEN PushSubwayStations(ToItemArray(items), 1, <<>>)
         ELSE [threw |-> FALSE, stops |-> <<>>]

parseSubwayApiResponse(text) == ParserCatch(SubwayTryBlock(text))

(***************************************************************************)
(* Provider payloads enumerated by the checks                              *)
(***************************************************************************)
\* all sequences over S of length at most n
RECURSIVE SeqsUpTo(_, _)
SeqsUpTo(S, n) ==
    IF n = 0 THEN {<<>>}
    ELSE LET shorter == SeqsUpTo(S, n - 1) IN
         shorter \cup {Append(q, e) : q \in {r \in shorter : Len(r) = n - 1}, e \in S}

\* the id fields and the name fields an item may carry
BusIdParts ==
    { NoFields,
      [stationId |-> Str("A1")],
      [stId |-> Str("B1")],
      [stationId |-> EmptyStr, stId |-> Str("B2")],
      [stationId |-> Str("A2"), stId |-> Str("B3")],
      [stId |-> Num(0)] }
BusNameParts ==
    { NoFields,
      [stationNm |-> Str("Gangnam")],
      [stNm |-> Str("Sinchon")],
      [stationNm |-> EmptyStr] }
\* the coordinate and sign fields an item may carry
BusCoordParts ==
    { [tmX |-> Str("200"), tmY |-> Str("450"), arsId |-> Str("01-001")],
      [gpsX |-> Str("127"), gpsY |-> Str("37")],
      [tmX |-> Str("200"), gpsX |-> Str("127"), tmY |-> EmptyStr, gpsY |-> Str("37")],
      [posX |-> Str("9"), posY |-> Str("8")],
      [tmX |-> Str("200"), tmY |-> Str("450"), posX |-> Str("9"), posY |-> Str("8")],
      [tmX |-> EmptyStr, gpsX |-> EmptyStr, posX |-> Str("9"), gpsY |-> Str("37")] }

BusItems ==
    { Obj(i @@ n) : i \in BusIdParts, n \in BusNameParts }
      \cup { Obj([stId |-> Str("C1"), stNm |-> Str("Jamsil")] @@ c) : c \in BusCoordParts }

\* what a JSON array may hold besides item objects
Strays == { Null, Str("x") }

SubwayItems ==
    { Obj(NoFields),
      Obj([subwayStationId |-> Str("SUB1"), subwayStationName |-> Str("Gangnam"),
           subwayRouteName |-> Str("Line2"), x |-> Str("1"), y |-> Str("2")]),
      Obj([subwayStationId |-> Str("SUB2"), subwayStationName |-> Str("Sinchon")]),
      Obj([subwayStationId |-> Str("SUB3")]),
      Obj([subwayStationName |-> Str("Jamsil"), subwayRouteName |-> Str("Line8")]),
      Obj([subwayStationId |-> EmptyStr, subwayStationName |-> Str("Seoul")]) }

\* the values found at msgBody.itemList or response.body.items.item
ListValues(items) ==
    { Null, EmptyStr, Num(0), Str("x") }
      \cup items
      \cup { Arr(q) : q \in SeqsUpTo(items \cup Strays, MaxItems) }

BusEnvelope(list) == Obj([msgBody |-> Obj([itemList |-> list])])
SubwayEnvelope(list) ==
    Obj([response |-> Obj([body |-> Obj([items |-> Obj([item |-> list])])])])

\* trees that lack the nested path
Shapeless ==
    { Null, Num(1), Str("x"), Arr(<<>>), Obj(NoFields),
      Obj([msgBody |-> Null]), Obj([msgBody |-> Str("x")]),
      Obj([msgBody |-> Obj(NoFields)]),
      Obj([response |-> Null]),
      Obj([response |-> Obj([body |-> Null])]),
      Obj([response |-> Obj([body |-> Obj([items |-> EmptyStr])])]),
      Obj([response |-> Obj([body |-> Obj([items |-> Obj(NoFields)])])]) }

BusTexts == { Text(BusEnvelope(l)) : l \in ListValues(BusItems) }
SubwayTexts == { Text(SubwayEnvelope(l)) : l \in ListValues(SubwayItems) }
\* legacy XML answers: <stationList> blocks with their stId and stNm tags
XmlBlocks ==
    { [stId |-> "X1", stNm |-> "Gangnam"], [stId |-> "X2", stNm |-> "Sinchon"] }
XmlTexts == { XmlText(q) : q \in SeqsUpTo(XmlBlocks, MaxItems) }
RawTexts ==
    { Unparseable } \cup { Text(j) : j \in Shapeless } \cup BusTexts \cup SubwayTexts
      \cup XmlTexts

(***************************************************************************)
(* Normalizer harness: one raw text, one parser call                       *)
(***************************************************************************)
NotParsed == [raised |-> FALSE, stops |-> <<>>]

CallParseApiResponse ==
    /\ ppc = "start"
    /\ parsed' = parseApiResponse(responseText)
    /\ ppc' = "bus"
    /\ UNCHANGED <<inv, responseText>>

CallParseSubwayApiResponse ==
    /\ ppc = "start"
    /\ parsed' = parseSubwayApiResponse(responseText)
    /\ ppc' = "subway"
    /\ UNCHANGED <<inv, responseText>>

(***************************************************************************)
(* Tool handlers                                                           *)
(***************************************************************************)
Inv == 1 .. NumInv
Branches == {"bus", "subway"}
OtherBranch(b) == IF b = "bus" THEN "subway" ELSE "bus"

\* String(v) as a template literal interpolates it
ToText(v) ==
    CASE v.t = "str" -> v.s
      [] v.t = "num" -> ToString(v.n)
      [] v.t = "undefined" -> "undefined"
      [] v.t = "null" -> "null"
      [] OTHER -> "[object Object]"

\* response.ok
ResponseOkAlways(resp) == TRUE
ResponseOk(resp) == resp.status \in 200 .. 299

\* new Error(`HTTP ${response.status}: ${response.statusText}`).message
HttpError(resp) == IF resp.status = 404 THEN "HTTP 404: Not Found"
                   ELSE "HTTP 500: Internal Server Error"

NoResponse == [status |-> 0, body |-> Unparseable]

\* one provider call: the provider's events (fetched, resp, read) and the
\* promise the code makes of them (st, val, err)
BranchOff ==
    [st |-> "off", fetched |-> "pending", resp |-> NoResponse,
     read |-> "pending", val |-> <<>>, err |-> ""]
BranchFetching == [BranchOff EXCEPT !.st = "fetching"]

Pending(p) == p.st \in {"fetching", "reading"}
Settled(p) == p.st \in {"fulfilled", "rejected"}

\* searchBusStops: busStops.map(stop => ({type: "bus", ...}))
BusToTransit(busStops) ==
    [k \in 1 .. Len(busStops) |->
        [type |-> "bus",
         id |-> busStops[k].stId,
         name |-> busStops[k].stNm,
         x |-> Or(busStops[k].tmX, busStops[k].posX),
         y |-> Or(busStops[k].tmY, busStops[k].posY),
         additionalInfo |-> busStops[k].arsId]]

\* searchSubwayStations: subwayStations.map(station => ({type: "subway", ...}))
SubwayToTransit(subwayStations) ==
    [k \in 1 .. Len(subwayStations) |->
        [type |-> "subway",
         id |-> subwayStations[k].subwayStationId,
         name |-> subwayStations[k].subwayStationName,
         x |-> subwayStations[k].x,
         y |-> subwayStations[k].y,
         additionalInfo |-> subwayStations[k].subwayRouteName]]

\* what the code after the response.ok check computes from the body
Normalized(tool, b, body) ==
    LET r == IF b = "subway" THEN parseSubwayApiResponse(body)
             ELSE parseApiResponse(body)
    IN  [raised |-> r.raised,
         stops |-> IF tool # "transit" THEN r.stops
                   ELSE IF b = "bus" THEN BusToTransit(r.stops)
                   ELSE SubwayToTransit(r.stops)]

\* await fetch(url): a network fault rejects, a response moves on to text()
AfterFetch(p, fault, resp) ==
    IF fault
    THEN [p EXCEPT !.st = "rejected", !.fetched = "fault", !.err = "fetch failed"]
    ELSE [p EXCEPT !.st = "reading", !.fetched = "response", !.resp = resp]

\* await response.text(); if (!response.ok) throw ...; parse; map
AfterText(tool, b, p, fault) ==
    IF fault
    THEN [p EXCEPT !.st = "rejected", !.read = "fault", !.err = "terminated"]
    ELSE IF ~ResponseOk(p.resp)
    THEN [p EXCEPT !.st = "rejected", !.read = "text", !.err = HttpError(p.resp)]
    ELSE LET n == Normalized(tool, b, p.resp.body) IN
         IF n.raised
         THEN [p EXCEPT !.st = "rejected", !.read = "text", !.err = "parse error"]
         ELSE [p EXCEPT !.st = "fulfilled", !.read = "text", !.val = n.stops]

\* promise.catch((error) => { return []; })
BranchCatchRethrow(p) == p
BranchCatch(p) ==
    IF p.st = "rejected" THEN [p EXCEPT !.st = "fulfilled", !.val = <<>>] ELSE p

\* Promise.all([p1, p2]): rejects with the first rejection, fulfils when
\* both have fulfilled, and is pending otherwise
PromiseAny(p1, p2) ==
    IF p1.st = "fulfilled" \/ p2.st = "fulfilled"
    THEN [st |-> "fulfilled", err |-> "", vals |-> <<p1.val, p2.val>>]
    ELSE IF p1.st = "rejected" /\ p2.st = "rejected"
    THEN [st |-> "rejected", err |-> p1.err, vals |-> <<>>]
    ELSE [st |-> "pending", err |-> "", vals |-> <<>>]
PromiseAll(p1, p2) ==
    IF p1.st = "rejected" THEN [st |-> "rejected", err |-> p1.err, vals |-> <<>>]
    ELSE IF p2.st = "rejected" THEN [st |-> "rejected", err |-> p2.err, vals |-> <<>>]
    ELSE IF p1.st = "fulfilled" /\ p2.st = "fulfilled"
    THEN [st |-> "fulfilled", err |-> "", vals |-> <<p1.val, p2.val>>]
    ELSE [st |-> "pending", err |-> "", vals |-> <<>>]

\* results.push(...busStops, ...subwayStations)
MergeSubwayFirst(results, busStops, subwayStations) ==
    results \o subwayStations \o busStops
Merge(results, busStops, subwayStations) ==
    results \o busStops \o subwayStations

\* the results array the handler pushes onto: a const local to the call
SharedResults(i, rec) ==
    LET others == {j \in Inv \ {i} : inv[j].results # <<>>} IN
    IF others = {} THEN rec.results
    ELSE inv[CHOOSE j \in others : TRUE].results
LocalResults(i, rec) == rec.results

(***************************************************************************)
(* Rendered text                                                           *)
(***************************************************************************)
NoText ==
    [error |-> FALSE, head |-> "none", term |-> "", count |-> 0,
     entries |-> <<>>, msg |-> ""]

\* `오류가 발생했습니다: ${error.message}`
ErrorText(err) == [NoText EXCEPT !.error = TRUE, !.head = "error", !.msg = err]

\* get_bus_stops_by_location: one line group per stop
LocationEntry(stop) ==
    [tag |-> "stop", name |-> ToText(stop.stNm), info |-> ToText(stop.arsId),
     x |-> ToText(stop.tmX), y |-> ToText(stop.tmY), id |-> ToText(stop.stId)]
RenderLocation(busStops) ==
    [NoText EXCEPT !.head = "location", !.count = Len(busStops),
        !.entries = [k \in 1 .. Len(busStops) |-> LocationEntry(busStops[k])]]

\* search_bus_stops_by_name: as above plus the GRS80 pair
BusNameEntry(stop) ==
    [tag |-> "stop", name |-> ToText(stop.stNm), info |-> ToText(stop.arsId),
     x |-> ToText(stop.tmX), y |-> ToText(stop.tmY), id |-> ToText(stop.stId),
     posX |-> ToText(stop.posX), posY |-> ToText(stop.posY)]
RenderBusName(term, busStops) ==
    [NoText EXCEPT !.head = "busname", !.term = term, !.count = Len(busStops),
        !.entries = [k \in 1 .. Len(busStops) |-> BusNameEntry(busStops[k])]]

\* search_transit_stops_by_name: bus and subway stops render differently
TransitEntryNoId(stop) ==
    IF stop.type = "bus"
    THEN [tag |-> "bus", name |-> ToText(stop.name),
          info |-> ToText(stop.additionalInfo),
          x |-> ToText(stop.x), y |-> ToText(stop.y)]
    ELSE [tag |-> "subway", name |-> ToText(stop.name),
          info |-> ToText(stop.additionalInfo)]
TransitEntry(stop) ==
    IF stop.type = "bus"
    THEN [tag |-> "bus", name |-> ToText(stop.name),
          info |-> ToText(stop.additionalInfo),
          x |-> ToText(stop.x), y |-> ToText(stop.y), id |-> ToText(stop.id)]
    ELSE [tag |-> "subway", name |-> ToText(stop.name),
          info |-> ToText(stop.additionalInfo), id |-> ToText(stop.id)]
RenderTransit(term, results) ==
    [NoText EXCEPT !.head = "transit", !.term = term, !.count = Len(results),
        !.entries = [k \in 1 .. Len(results) |-> TransitEntry(results[k])]]

\* try { ... return text } catch (error) { return error text }
HandlerCatchNone(rec, body) ==
    IF body.threw
    THEN [rec EXCEPT !.pc = "threw", !.results = body.results]
    ELSE [rec EXCEPT !.pc = "returned", !.out = body.out, !.results = body.results]
HandlerCatch(rec, body) ==
    [rec EXCEPT !.pc = "returned",
                !.out = IF body.threw THEN ErrorText(body.err) ELSE body.out,
                !.results = body.results]

\* the handler's code after its awaits, run as soon as the awaited promise
\* is decided; rec is the invocation with the branch just settled
Continue(i, rec) ==
    IF rec.pc # "running" THEN rec
    ELSE IF rec.tool = "transit"
    THEN LET all == PromiseAll(BranchCatch(rec.br["bus"]),
                               BranchCatch(rec.br["subway"])) IN
         IF all.st = "pending" THEN rec
         ELSE IF all.st = "rejected"
         THEN HandlerCatch(rec, [threw |-> TRUE, err |-> all.err,
                                 out |-> NoText, results |-> LocalResults(i, rec)])
         ELSE LET results == Merge(LocalResults(i, rec), all.vals[1], all.vals[2]) IN
              HandlerCatch(rec, [threw |-> FALSE, err |-> "",
                                 out |-> RenderTransit(rec.term, results),
                                 results |-> results])
    ELSE LET p == rec.br["bus"] IN
         IF Pending(p) THEN rec
         ELSE IF p.st = "rejected"
         THEN HandlerCatch(rec, [threw |-> TRUE, err |-> p.err,
                                 out |-> NoText, results |-> <<>>])
         ELSE HandlerCatch(rec, [threw |-> FALSE, err |-> "",
                                 out |-> IF rec.tool = "location"
                                         THEN RenderLocation(p.val)
                                         ELSE RenderBusName(rec.term, p.val),
                                 results |-> <<>>])

Idle ==
    [tool |-> "none", term |-> "", pc |-> "idle",
     br |-> [b \in Branches |-> BranchOff],
     settled |-> <<>>, results |-> <<>>, out |-> NoText]

\* a tool call arrives: the handler runs up to its first await
Invoke(i, tool, term) ==
    /\ inv[i].pc = "idle"
    /\ inv' = [inv EXCEPT ![i] =
            [Idle EXCEPT !.tool = tool,
                         !.term = IF tool = "location" THEN "" ELSE term,
                         !.pc = "running",
                         !.br = [b \in Branches |->
                                    IF b = "bus" \/ tool = "transit"
                                    THEN BranchFetching ELSE BranchOff]]]
    /\ UNCHANGED <<responseText, parsed, ppc>>

\* branch b's promise went from pending to decided
Settles(i, b, p) ==
    IF Settled(p) THEN Append(inv[i].settled, b) ELSE inv[i].settled

\* fetch() of branch b settles
FetchSettle(i, b, fault, resp) ==
    /\ inv[i].br[b].st = "fetching"
    /\ \E p \in {AfterFetch(inv[i].br[b], fault, resp)} :
       \E rec \in {[inv[i] EXCEPT !.br[b] = p, !.settled = Settles(i, b, p)]} :
            inv' = [inv EXCEPT ![i] = Continue(i, rec)]
    /\ UNCHANGED <<responseText, parsed, ppc>>

\* response.text() of branch b settles
TextSettle(i, b, fault) ==
    /\ inv[i].br[b].st = "reading"
    /\ \E p \in {AfterText(inv[i].tool, b, inv[i].br[b], fault)} :
       \E rec \in {[inv[i] EXCEPT !.br[b] = p, !.settled = Settles(i, b, p)]} :
            inv' = [inv EXCEPT ![i] = Continue(i, rec)]
    /\ UNCHANGED <<responseText, parsed, ppc>>

(***************************************************************************)
(* Inputs of the handler specifications                                    *)
(***************************************************************************)
Tools == {"location", "busname", "transit"}
Terms == {"gangnam", ""}
Statuses == {200, 500}

BusGood1 ==
    Obj([stationId |-> Str("A1"), stationNm |-> Str("Gangnam"),
         tmX |-> Str("200"), tmY |-> Str("450"), arsId |-> Str("01-001")])
BusGood2 ==
    Obj([stId |-> Str("B1"), stNm |-> Str("Sinchon"),
         posX |-> Str("9"), posY |-> Str("8")])
SubwayGood1 ==
    Obj([subwayStationId |-> Str("SUB1"), subwayStationName |-> Str("Gangnam"),
         subwayRouteName |-> Str("Line2"), x |-> Str("1"), y |-> Str("2")])
SubwayGood2 ==
    Obj([subwayStationId |-> Str("SUB2"), subwayStationName |-> Str("Sinchon")])

\* bodies a provider may answer with, whatever the status
Bodies(b) ==
    { Unparseable, Text(Obj(NoFields)) }
      \cup (IF b = "bus"
            THEN { Text(BusEnvelope(BusGood1)) }
                   \cup { Text(BusEnvelope(Arr(q))) :
                            q \in SeqsUpTo({BusGood1, BusGood2, Null}, MaxItems) }
            ELSE { Text(SubwayEnvelope(SubwayGood1)) }
                   \cup { Text(SubwayEnvelope(Arr(q))) :
                            q \in SeqsUpTo({SubwayGood1, SubwayGood2, Null}, MaxItems) })

Responses(b) == [status : Statuses, body : Bodies(b)]

\* the few responses used when several invocations run at once
FewResponses(b) ==
    [status : Statuses,
     body : { IF b = "bus" THEN Text(BusEnvelope(Arr(<<BusGood1>>)))
              ELSE Text(SubwayEnvelope(Arr(<<SubwayGood1>>))) }]

FetchOutcomes(R) ==
    { [fault |-> TRUE, resp |-> NoResponse] } \cup { [fault |-> FALSE, resp |-> r] : r \in R }

(***************************************************************************)
(* Normalizer harness, continued: the parse-and-map tail of the two search *)
(* helpers on one raw text                                                 *)
(***************************************************************************)
\* searchBusStops from parseApiResponse(responseText) on
CallSearchBusStops ==
    /\ ppc = "start"
    /\ parsed' = Normalized("transit", "bus", responseText)
    /\ ppc' = "busTransit"
    /\ UNCHANGED <<inv, responseText>>

\* searchSubwayStations from parseSubwayApiResponse(responseText) on
CallSearchSubwayStations ==
    /\ ppc = "start"
    /\ parsed' = Normalized("transit", "subway", responseText)
    /\ ppc' = "subwayTransit"
    /\ UNCHANGED <<inv, responseText>>

(***************************************************************************)
(* Specifications                                                          *)
(***************************************************************************)
\* one invocation against every provider outcome
Init ==
    /\ inv = [i \in Inv |-> Idle]
    /\ responseText = Unparseable
    /\ parsed = NotParsed
    /\ ppc = "off"

Next ==
    \/ \E tool \in Tools, term \in Terms : Invoke(1, tool, term)
    \/ \E b \in Branches : \E o \in FetchOutcomes(Responses(b)) :
            FetchSettle(1, b, o.fault, o.resp)
    \/ \E b \in Branches, fault \in BOOLEAN : TextSettle(1, b, fault)

Spec == Init /\ [][Next]_vars

\* NumInv invocations at once against a few provider outcomes
NextConc ==
    \/ \E i \in Inv, tool \in Tools : Invoke(i, tool, "gangnam")
    \/ \E i \in Inv, b \in Branches : \E o \in FetchOutcomes(FewResponses(b)) :
            FetchSettle(i, b, o.fault, o.resp)
    \/ \E i \in Inv, b \in Branches : TextSettle(i, b, FALSE)

SpecConc == Init /\ [][NextConc]_vars

\* one invocation whose pending fetch() and text() promises each settle in the
\* end: the condition under which the handlers are claimed to return
FetchOf(b) ==
    \E o \in FetchOutcomes(FewResponses(b)) : FetchSettle(1, b, o.fault, o.resp)
TextOf(b) == \E fault \in BOOLEAN : TextSettle(1, b, fault)

NextLive ==
    \/ \E tool \in Tools, term \in Terms : Invoke(1, tool, term)
    \/ \E b \in Branches : FetchOf(b)
    \/ \E b \in Branches : TextOf(b)

\* a pending promise settles: with finitely many of them, fairness of this
\* step settles each one in the end
SettleStep == \E b \in Branches : FetchOf(b) \/ TextOf(b)
EverySettles == WF_vars(SettleStep)

SpecLive == Init /\ [][NextLive]_vars /\ EverySettles

\* one parser call on every raw text
InitParse ==
    /\ inv = [i \in Inv |-> Idle]
    /\ responseText \in RawTexts
    /\ parsed = NotParsed
    /\ ppc = "start"

NextParse ==
    \/ CallParseApiResponse
    \/ CallParseSubwayApiResponse
    \/ CallSearchBusStops
    \/ CallSearchSubwayStations

SpecParse == InitParse /\ [][NextParse]_vars

(***************************************************************************)
(* Vocabulary of the properties, stated over the provider's events         *)
(***************************************************************************)
Done(rec) == rec.pc \in {"returned", "threw"}

\* the provider answered with a success status and its body was read
BranchSucceeded(p) ==
    p.fetched = "response" /\ p.read = "text" /\ p.resp.status \in 200 .. 299

\* network fault on fetch or on the body, or a non-success status
BranchFailed(p) ==
    \/ p.fetched = "fault"
    \/ p.read = "fault"
    \/ p.read = "text" /\ p.resp.status \notin 200 .. 299

\* the stops the normalizer and the mapping emit for branch b's body
Emitted(rec, b) == Normalized("transit", b, rec.br[b].resp.body).stops

\* the text of a successful by-name search over the given stops
IsTransitTextOf(out, term, stops) ==
    /\ ~out.error
    /\ out.head = "transit"
    /\ out.term = term
    /\ out.count = Len(stops)
    /\ Len(out.entries) = Len(stops)
    /\ \A k \in 1 .. Len(stops) : out.entries[k] = TransitEntry(stops[k])

\* C1: when both providers succeed with non-empty results, the merged result
\* lists every bus stop, in parser order, before every subway stop, in parser
\* order, whichever branch settled first.
C1_BusBeforeSubway ==
    \A i \in Inv :
        LET rec == inv[i] IN
        (/\ rec.tool = "transit"
         /\ Done(rec)
         /\ BranchSucceeded(rec.br["bus"]) /\ BranchSucceeded(rec.br["subway"])
         /\ Emitted(rec, "bus") # <<>> /\ Emitted(rec, "subway") # <<>>)
        => LET bus == Emitted(rec, "bus")
               sub == Emitted(rec, "subway")
           IN  /\ rec.pc = "returned"
               /\ ~rec.out.error
               /\ Len(rec.out.entries) = Len(bus) + Len(sub)
               /\ \A k \in 1 .. Len(bus) :
                      /\ rec.out.entries[k].tag = "bus"
                      /\ rec.out.entries[k] = TransitEntry(bus[k])
               /\ \A k \in 1 .. Len(sub) :
                      /\ rec.out.entries[Len(bus) + k].tag = "subway"
                      /\ rec.out.entries[Len(bus) + k] = TransitEntry(sub[k])

\* the subway branch settled first, and two bus stops still precede the subway stop
C1_Witness ==
    \E i \in Inv :
        /\ inv[i].tool = "transit" /\ inv[i].pc = "returned"
        /\ inv[i].settled = <<"subway", "bus">>
        /\ BranchSucceeded(inv[i].br["bus"]) /\ BranchSucceeded(inv[i].br["subway"])
        /\ Len(inv[i].out.entries) = 3
        /\ inv[i].out.entries[1].id = "A1"
        /\ inv[i].out.entries[2].id = "B1"
        /\ inv[i].out.entries[3].tag = "subway"

\* C2: when exactly one branch fails and the other succeeds with N stops, the
\* by-name search returns a non-error text holding exactly those N stops.
C2_OneBranchFails ==
    \A i \in Inv : \A b \in Branches :
        LET rec == inv[i] IN
        (/\ rec.tool = "transit"
         /\ Done(rec)
         /\ BranchFailed(rec.br[b])
         /\ BranchSucceeded(rec.br[OtherBranch(b)]))
        => /\ rec.pc = "returned"
           /\ rec.results = Emitted(rec, OtherBranch(b))
           /\ IsTransitTextOf(rec.out, rec.term, Emitted(rec, OtherBranch(b)))

\* the subway provider answered 500 and the two bus stops were returned
C2_Witness ==
    \E i \in Inv :
        /\ inv[i].tool = "transit" /\ inv[i].pc = "returned"
        /\ inv[i].br["subway"].read = "text" /\ inv[i].br["subway"].resp.status = 500
        /\ BranchSucceeded(inv[i].br["bus"])
        /\ ~inv[i].out.error
        /\ inv[i].out.count = 2
        /\ inv[i].out.entries[2].tag = "bus"

\* the 0-results text of the by-name search
ZeroResults(term) ==
    [error |-> FALSE, head |-> "transit", term |-> term, count |-> 0,
     entries |-> <<>>, msg |-> ""]

\* C3: when both branches fail the by-name search returns the 0-results text,
\* not an error text: the same text as when both providers succeed with no match.
C3_BothBranchesFail ==
    \A i \in Inv :
        LET rec == inv[i] IN
        (/\ rec.tool = "transit"
         /\ Done(rec)
         /\ \/ BranchFailed(rec.br["bus"]) /\ BranchFailed(rec.br["subway"])
            \/ /\ BranchSucceeded(rec.br["bus"]) /\ BranchSucceeded(rec.br["subway"])
               /\ Emitted(rec, "bus") = <<>> /\ Emitted(rec, "subway") = <<>>)
        => /\ rec.pc = "returned"
           /\ rec.out = ZeroResults(rec.term)

\* the bus fetch faulted, the subway provider answered 500, and the text is
\* the 0-results text
C3_Witness ==
    \E i \in Inv :
        /\ inv[i].tool = "transit" /\ inv[i].pc = "returned"
        /\ inv[i].br["bus"].fetched = "fault"
        /\ inv[i].br["subway"].read = "text" /\ inv[i].br["subway"].resp.status = 500
        /\ inv[i].out.count = 0 /\ ~inv[i].out.error

\* a by-name search has produced its result only after both fetches settled
JoinedAfterBoth ==
    \A i \in Inv :
        (inv[i].tool = "transit" /\ Done(inv[i]))
        => \A b \in Branches : Settled(inv[i].br[b])

\* a step in which one branch fails while its sibling is pending leaves the
\* sibling as it was and the handler still waiting
FailureLeavesSibling ==
    \A i \in Inv : \A b \in Branches :
        (/\ inv[i].tool = "transit"
         /\ ~BranchFailed(inv[i].br[b])
         /\ BranchFailed(inv'[i].br[b])
         /\ Pending(inv[i].br[OtherBranch(b)]))
        => /\ inv'[i].br[OtherBranch(b)] = inv[i].br[OtherBranch(b)]
           /\ inv'[i].pc = "running"
           /\ inv'[i].out = NoText

\* C4: both branches of the by-name search are awaited to completion: no result
\* exists before both fetches have settled, and a failing branch neither
\* changes its sibling nor ends the join.
C4_BothAwaited == []JoinedAfterBoth /\ [][FailureLeavesSibling]_vars

\* the bus branch has failed, the subway body is still being read, and the
\* handler is still waiting
C4_Witness ==
    \E i \in Inv :
        /\ inv[i].tool = "transit" /\ inv[i].pc = "running"
        /\ BranchFailed(inv[i].br["bus"])
        /\ inv[i].br["subway"].st = "reading"
        /\ inv[i].out = NoText

\* the promises the handler of rec awaits
Awaited(rec) ==
    IF rec.tool = "transit" THEN Branches
    ELSE IF rec.tool = "none" THEN {} ELSE {"bus"}

\* C5: every tool operation returns a text for every provider outcome: no
\* exception escapes, and once its provider calls have settled the operation
\* has returned its text.
C5_AlwaysReturns ==
    \A i \in Inv :
        LET rec == inv[i] IN
        /\ rec.pc # "threw"
        /\ (rec.tool # "none" /\ \A b \in Awaited(rec) : Settled(rec.br[b]))
           => /\ rec.pc = "returned"
              /\ rec.out.head \in {"location", "busname", "transit", "error"}

\* search_bus_stops_by_name met a network fault and returned an error text
C5_Witness ==
    \E i \in Inv :
        /\ inv[i].tool = "busname" /\ inv[i].pc = "returned"
        /\ inv[i].br["bus"].fetched = "fault"
        /\ inv[i].out.head = "error"

\* C6: in get_bus_stops_by_location a non-success status or a network fault
\* yields one error text and no stop list.
C6_LocationFailure ==
    \A i \in Inv :
        LET rec == inv[i] IN
        (rec.tool = "location" /\ BranchFailed(rec.br["bus"]))
        => /\ rec.pc = "returned"
           /\ rec.out.error
           /\ rec.out.head = "error"
           /\ rec.out.msg # ""
           /\ rec.out.entries = <<>>
           /\ rec.out.count = 0

\* the provider answered 500 with a body of two well-formed stops, and the
\* result is the error text
C6_Witness ==
    \E i \in Inv :
        /\ inv[i].tool = "location" /\ inv[i].pc = "returned"
        /\ inv[i].br["bus"].read = "text"
        /\ inv[i].br["bus"].resp.status = 500
        /\ Len(parseApiResponse(inv[i].br["bus"].resp.body).stops) = 2
        /\ inv[i].out.error

(***************************************************************************)
(* The result of one invocation run alone on its provider events           *)
(***************************************************************************)
\* the message of the failure the provider events of p amount to
FailureMessage(p) ==
    IF p.fetched = "fault" THEN "fetch failed"
    ELSE IF p.read = "fault" THEN "terminated"
    ELSE HttpError(p.resp)

\* the stops branch b contributes to a by-name search
Contribution(rec, b) ==
    IF BranchFailed(rec.br[b]) THEN <<>> ELSE Emitted(rec, b)

RunAlone(rec) ==
    IF rec.tool = "transit"
    THEN RenderTransit(rec.term, Contribution(rec, "bus") \o Contribution(rec, "subway"))
    ELSE IF BranchFailed(rec.br["bus"])
    THEN ErrorText(FailureMessage(rec.br["bus"]))
    ELSE LET stops == parseApiResponse(rec.br["bus"].resp.body).stops IN
         IF rec.tool = "location" THEN RenderLocation(stops)
         ELSE RenderBusName(rec.term, stops)

\* C7: simultaneous invocations are independent: under every interleaving each
\* invocation returns the text it would return running alone on the same
\* provider responses, and holds only the stops of its own branches.
C7_Independent ==
    \A i \in Inv :
        Done(inv[i])
        => /\ inv[i].pc = "returned"
           /\ inv[i].out = RunAlone(inv[i])
           /\ inv[i].tool = "transit"
              => inv[i].results = Contribution(inv[i], "bus") \o Contribution(inv[i], "subway")

\* two by-name searches have each returned their own two stops, one of them
\* with its subway branch settling first
C7_Witness ==
    \E i \in Inv : \E j \in Inv \ {i} :
        /\ inv[i].tool = "transit" /\ inv[i].pc = "returned" /\ Len(inv[i].results) = 2
        /\ inv[j].tool = "transit" /\ inv[j].pc = "returned" /\ Len(inv[j].results) = 2
        /\ inv[j].out.count = 2
        /\ inv[i].settled = <<"subway", "bus">>

(***************************************************************************)
(* Normalizer properties                                                   *)
(***************************************************************************)
\* the value at msgBody.itemList, when every object on the path is there
BusList(text) ==
    IF /\ text.ok
       /\ text.json.t = "obj"
       /\ "msgBody" \in DOMAIN text.json.m
       /\ text.json.m["msgBody"].t = "obj"
       /\ "itemList" \in DOMAIN text.json.m["msgBody"].m
    THEN text.json.m["msgBody"].m["itemList"]
    ELSE Undefined

\* the value at response.body.items.item, when every object on the path is there
RECURSIVE Walk(_, _)
Walk(v, path) ==
    IF path = <<>> THEN v
    ELSE IF v.t = "obj" /\ Head(path) \in DOMAIN v.m
    THEN Walk(v.m[Head(path)], Tail(path))
    ELSE Undefined
SubwayList(text) ==
    IF text.ok THEN Walk(text.json, <<"response", "body", "items", "item">>)
    ELSE Undefined

\* C8: a bus payload whose itemList is a single object parses to the same
\* sequence as the payload whose itemList is the array of that one object: one
\* stop when the object has an id and a name.
C8_SingleObjectAsArray ==
    (ppc = "bus" /\ BusList(responseText).t = "obj")
    => LET item == BusList(responseText)
           asArray == parseApiResponse(Text(BusEnvelope(Arr(<<item>>))))
       IN  /\ parsed = asArray
           /\ Len(parsed.stops) <= 1
           /\ (Truthy(StationId(item)) /\ Truthy(StationName(item)))
              => parsed.stops = <<BusStopOf(item)>>

\* a single-object itemList gave one stop
C8_Witness ==
    /\ ppc = "bus"
    /\ BusList(responseText).t = "obj"
    /\ Len(parsed.stops) = 1
    /\ parsed.stops[1].stId = Str("A2")

\* an element of the item list that has an id and a name
WellFormedBus(item) ==
    /\ item.t = "obj"
    /\ \/ "stationId" \in DOMAIN item.m /\ Truthy(item.m["stationId"])
       \/ "stId" \in DOMAIN item.m /\ Truthy(item.m["stId"])
    /\ \/ "stationNm" \in DOMAIN item.m /\ Truthy(item.m["stationNm"])
       \/ "stNm" \in DOMAIN item.m /\ Truthy(item.m["stNm"])

\* the elements of an item list: those of the array, or the one object
ElementsOf(list) == IF list.t = "arr" THEN list.a ELSE <<list>>

\* the well-formed elements of q, in order
RECURSIVE WellFormedOnly(_)
WellFormedOnly(q) ==
    IF q = <<>> THEN <<>>
    ELSE IF WellFormedBus(Head(q)) THEN <<Head(q)>> \o WellFormedOnly(Tail(q))
    ELSE WellFormedOnly(Tail(q))

\* C9: parseApiResponse drops each element that lacks an id or a name and emits
\* every other element, wherever the ill-formed ones sit: the output has one
\* stop per well-formed element, in order, none with an empty id or name.
C9_DropsIllFormedOnly ==
    (ppc = "bus" /\ BusList(responseText).t \in {"obj", "arr"})
    => LET good == WellFormedOnly(ElementsOf(BusList(responseText))) IN
       /\ Len(parsed.stops) = Len(good)
       /\ \A k \in 1 .. Len(parsed.stops) :
              /\ k <= Len(good) => parsed.stops[k] = BusStopOf(good[k])
              /\ Truthy(parsed.stops[k].stId)
              /\ Truthy(parsed.stops[k].stNm)

\* raw input without an item list: no JSON, or no object or array at the path
MalformedBus(text) == BusList(text).t \notin {"obj", "arr"}
MalformedSubway(text) == SubwayList(text).t \notin {"obj", "arr"}

\* C10: neither normalizer ever raises, and each returns the empty sequence
\* for raw input that is not JSON or has no item list at its nested path.
C10_MalformedGivesEmpty ==
    /\ ~parsed.raised
    /\ (ppc = "bus" /\ MalformedBus(responseText)) => parsed.stops = <<>>
    /\ (ppc = "subway" /\ MalformedSubway(responseText)) => parsed.stops = <<>>

\* parseSubwayApiResponse was handed text that is not JSON and returned empty
C10_Witness ==
    /\ ppc = "subway"
    /\ ~responseText.ok
    /\ parsed.stops = <<>>
    /\ ~parsed.raised

(***************************************************************************)
(* Field resolution of the by-name search                                  *)
(***************************************************************************)
\* the text of field k of item when it is there and non-empty, else none
Present(item, k) == k \in DOMAIN item.m /\ Truthy(item.m[k])

\* the first of the fields ks that item carries non-empty, else the empty string
RECURSIVE FirstPresent(_, _)
FirstPresent(item, ks) ==
    IF ks = <<>> THEN EmptyStr
    ELSE IF Present(item, Head(ks)) THEN item.m[Head(ks)]
    ELSE FirstPresent(item, Tail(ks))

\* the items behind the stops the bus search emitted: the well-formed elements
\* of the item list, in order
BusSources == WellFormedOnly(ElementsOf(BusList(responseText)))

\* C11 as stated: x of every emitted bus stop is tmX, else gpsX, else the
\* empty string, and y is tmY, else gpsY, else the empty string.
C11_CoordFallbackAsStated ==
    (ppc = "busTransit" /\ BusList(responseText).t \in {"obj", "arr"})
    => \A k \in 1 .. Len(parsed.stops) :
           k <= Len(BusSources)
           => /\ parsed.stops[k].x = FirstPresent(BusSources[k], <<"tmX", "gpsX">>)
              /\ parsed.stops[k].y = FirstPresent(BusSources[k], <<"tmY", "gpsY">>)

\* C11, amended: x of every emitted bus stop is tmX, else gpsX, else posX,
\* else the empty string, and y is tmY, else gpsY, else posY, else the empty
\* string; tmX wins over gpsX when both are there.
C11_CoordFallback ==
    (ppc = "busTransit" /\ BusList(responseText).t \in {"obj", "arr"})
    => \A k \in 1 .. Len(parsed.stops) :
           k <= Len(BusSources)
           => /\ parsed.stops[k].type = "bus"
              /\ parsed.stops[k].x = FirstPresent(BusSources[k], <<"tmX", "gpsX", "posX">>)
              /\ parsed.stops[k].y = FirstPresent(BusSources[k], <<"tmY", "gpsY", "posY">>)

\* an item with both tmX and gpsX was emitted with x = tmX, and its empty tmY
\* gave way to gpsY
C11_Witness ==
    /\ ppc = "busTransit"
    /\ Len(parsed.stops) = 1
    /\ Len(BusSources) = 1
    /\ Present(BusSources[1], "tmX") /\ Present(BusSources[1], "gpsX")
    /\ parsed.stops[1].x = Str("200")
    /\ parsed.stops[1].y = Str("37")

\* an element of the subway item list that has an id and a name
WellFormedSubway(item) ==
    /\ item.t = "obj"
    /\ Present(item, "subwayStationId")
    /\ Present(item, "subwayStationName")

RECURSIVE WellFormedSubwayOnly(_)
WellFormedSubwayOnly(q) ==
    IF q = <<>> THEN <<>>
    ELSE IF WellFormedSubway(Head(q))
    THEN <<Head(q)>> \o WellFormedSubwayOnly(Tail(q))
    ELSE WellFormedSubwayOnly(Tail(q))

\* C12: the subway search emits exactly the elements of response.body.items.item
\* (a single object counting as a one-element list) whose subwayStationId and
\* subwayStationName are non-empty, in payload order, with id, name, x, y and
\* route name taken from the element, absent ones as the empty string.
C12_SubwayEmission ==
    (ppc = "subwayTransit" /\ SubwayList(responseText).t \in {"obj", "arr"})
    => LET good == WellFormedSubwayOnly(ElementsOf(SubwayList(responseText))) IN
       /\ Len(parsed.stops) = Len(good)
       /\ \A k \in 1 .. Len(parsed.stops) :
              k <= Len(good)
              => parsed.stops[k] =
                    [type |-> "subway",
                     id |-> good[k].m["subwayStationId"],
                     name |-> good[k].m["subwayStationName"],
                     x |-> FirstPresent(good[k], <<"x">>),
                     y |-> FirstPresent(good[k], <<"y">>),
                     additionalInfo |-> FirstPresent(good[k], <<"subwayRouteName">>)]

(***************************************************************************)
(* Rendering of the unified result                                         *)
(***************************************************************************)
\* entry e prints field k with the text of value v
Prints(e, k, v) == k \in DOMAIN e /\ e[k] = ToText(v)

\* the k-th stop of a returned by-name search and its entry in the text
Rendered(rec) == rec.tool = "transit" /\ rec.pc = "returned" /\ ~rec.out.error

\* C13 as stated: the text of every stop, bus or subway, holds its name, its
\* auxiliary info, its x and y and its id, tagged by kind.
C13_EntryFieldsAsStated ==
    \A i \in Inv :
        Rendered(inv[i])
        => /\ Len(inv[i].out.entries) = Len(inv[i].results)
           /\ \A k \in 1 .. Len(inv[i].results) :
                  LET stop == inv[i].results[k]
                      e == inv[i].out.entries[k]
                  IN  /\ e.tag = stop.type
                      /\ Prints(e, "name", stop.name)
                      /\ Prints(e, "info", stop.additionalInfo)
                      /\ Prints(e, "x", stop.x)
                      /\ Prints(e, "y", stop.y)
                      /\ Prints(e, "id", stop.id)

\* C13, amended: the text of every stop holds its name, its auxiliary info and
\* its id, tagged by kind; the text of a bus stop also holds its x and y, the
\* text of a subway stop holds no coordinate.
C13_EntryFields ==
    \A i \in Inv :
        Rendered(inv[i])
        => /\ Len(inv[i].out.entries) = Len(inv[i].results)
           /\ \A k \in 1 .. Len(inv[i].results) :
                  LET stop == inv[i].results[k]
                      e == inv[i].out.entries[k]
                  IN  /\ e.tag = stop.type
                      /\ Prints(e, "name", stop.name)
                      /\ Prints(e, "info", stop.additionalInfo)
                      /\ Prints(e, "id", stop.id)
                      /\ stop.type = "bus"
                         => Prints(e, "x", stop.x) /\ Prints(e, "y", stop.y)
                      /\ stop.type = "subway"
                         => "x" \notin DOMAIN e /\ "y" \notin DOMAIN e

\* a text with a bus stop and a subway stop that has coordinates of its own
C13_Witness ==
    \E i \in Inv :
        /\ Rendered(inv[i])
        /\ Len(inv[i].results) = 2
        /\ inv[i].results[1].type = "bus"
        /\ inv[i].out.entries[1].x = "200"
        /\ inv[i].results[2].type = "subway"
        /\ inv[i].results[2].x = Str("1")
        /\ inv[i].out.entries[2].id = "SUB1"

(***************************************************************************)
(* Legacy XML answers                                                      *)
(***************************************************************************)
IsXml(text) == "xml" \in DOMAIN text

NonSuccess(p) == p.fetched = "response" /\ p.resp.status \notin 200 .. 299

\* C15: a response with a non-success status is a failure whatever its body:
\* its branch adds no stop to a by-name search, and a single-branch operation
\* returns the error text and no stop list.
C15_NonSuccessIsFailure ==
    \A i \in Inv :
        LET rec == inv[i] IN
        /\ \A b \in Branches :
              (rec.tool = "transit" /\ Done(rec) /\ NonSuccess(rec.br[b]))
              => /\ rec.pc = "returned"
                 /\ ~rec.out.error
                 /\ \A k \in 1 .. Len(rec.out.entries) : rec.out.entries[k].tag # b
                 /\ \A k \in 1 .. Len(rec.results) : rec.results[k].type # b
                 /\ rec.out.count = Len(Contribution(rec, OtherBranch(b)))
        /\ (rec.tool \in {"location", "busname"} /\ Done(rec) /\ NonSuccess(rec.br["bus"]))
           => /\ rec.pc = "returned"
              /\ rec.out.error
              /\ rec.out.entries = <<>>

\* the bus provider answered 500 with a body of two well-formed stops, and the
\* by-name search returned the one subway stop only
C15_Witness ==
    \E i \in Inv :
        /\ inv[i].tool = "transit" /\ inv[i].pc = "returned"
        /\ inv[i].br["bus"].resp.status = 500
        /\ inv[i].br["bus"].read = "text"
        /\ Len(Emitted(inv[i], "bus")) = 2
        /\ inv[i].out.count = 1
        /\ inv[i].out.entries[1].tag = "subway"

(***************************************************************************)
(* Termination of the by-name search                                       *)
(***************************************************************************)
\* an invoked by-name search returns in the end
TransitReturns == (inv[1].tool = "transit") ~> (inv[1].pc = "returned")

\* while either fetch of a by-name search is unsettled there is no result
NoResultWhilePending ==
    \A i \in Inv :
        (inv[i].tool = "transit" /\ \E b \in Branches : Pending(inv[i].br[b]))
        => inv[i].pc = "running" /\ inv[i].out = NoText

\* C16: if each provider fetch settles in the end the by-name search returns in
\* the end; nothing but the settling of both fetches ends it, so while a fetch
\* is unsettled it has not returned, even with the other branch complete.
C16_ReturnsWhenBothSettle == TransitReturns /\ []NoResultWhilePending

\* the bus branch has completed with its stop, the subway fetch is unsettled,
\* and the search is still waiting
C16_Witness ==
    \E i \in Inv :
        /\ inv[i].tool = "transit" /\ inv[i].pc = "running"
        /\ inv[i].br["bus"].st = "fulfilled"
        /\ Len(inv[i].br["bus"].val) = 1
        /\ inv[i].br["subway"].st = "fetching"

====
